---- MODULE Spec2Model ----
(***************************************************************************)
(* Browser-devtools skill of claude-rock: the session registry of          *)
(* lib/browser.ts (getBrowserSession, getExistingSession,                  *)
(* closeBrowserSession) and the command scripts built on it.               *)
(*                                                                         *)
(* An action is one turn of the Node event loop: the awaited promise       *)
(* settles and the continuation runs up to the next await.                 *)
(***************************************************************************)
EXTENDS Integers, Sequences, FiniteSets, TLC

\* Bounds of the model.
MaxEngines == 2
MaxInvocations == 3
MaxRequests == 2
MaxMessages == 2
MaxNow == 2
MaxNodes == 2
MaxSnapshots == 2
MaxLayouts == 1
MaxDepth == 2
MaxArgs == 3

Engines == 1..MaxEngines
Callers == {1, 2}
Main == 1

NoSession == [browser |-> 0, sessionId |-> <<0, 0>>]
Void == [browser |-> 0, sessionId |-> <<0, 1>>]

\* Values of options.browser: absent, an engine other than the default, an
\* unrecognised name.
BrowserNames == {"undefined", "firefox", "opera"}
\* Outcomes of Math.random().toString(36).substr(2, 9), two of them.
RandomParts == {0, 1}

BrowserOptions == [browser : BrowserNames, headless : BOOLEAN]

\* The command scripts.
Commands == {"navigate", "screenshot", "snapshot", "evaluate", "click", "fill",
             "console", "network", "performance"}
Monitors == {"console", "network"}

\* parseArgs(process.argv.slice(2)), as far as the scripts read it: --url given,
\* the other argument the script requires given (--selector, --script,
\* --selector with --value), --close absent or "false", --output given,
\* --types given.
\* Of click, --wait-for given; of fill, --clear true given and the --value;
\* of screenshot, --full-page true given; of the monitors, --duration in
\* ticks of the clock.
Values == {<<"a">>, <<"a", "b">>}
NoValue == <<>>
Durations == {0, 1}
Args == [url : BOOLEAN, req : BOOLEAN, close : {"absent", "false"},
         output : BOOLEAN, types : BOOLEAN, waitFor : BOOLEAN, clear : BOOLEAN,
         value : Values \cup {NoValue}, fullPage : BOOLEAN, duration : Durations,
         noNavigation : BOOLEAN]
NoArgs == [url |-> FALSE, req |-> FALSE, close |-> "absent", output |-> FALSE,
           types |-> FALSE, waitFor |-> FALSE, clear |-> FALSE, value |-> NoValue,
           fullPage |-> FALSE, duration |-> 0, noNavigation |-> FALSE]

\* msg.type() of a console event, request.resourceType() of a request,
\* response.status() of a response, the length of a response body.
ConsoleTypes == {"error", "log"}
ResourceTypes == {"xhr", "image"}
Statuses == {200, 404}
BodySizes == {2}
Requests == 1..MaxRequests

\* An engine request nobody has sent yet; a request without _requestData; a
\* response listener that is not suspended in response.text().
Unsent == [state |-> "none", resourceType |-> "none", status |-> 0]
NoData == [resourceType |-> "none", startTime |-> -1]
NoRead == [endTime |-> -1, seq |-> 0]

\* Math.floor(status / 100) * 100
StatusGroup(status) == (status \div 100) * 100
StatusGroups == {StatusGroup(st) : st \in Statuses}

\* No summary computed yet. Of byStatus, the 'failed' key and the keys of the
\* status groups; of averageResponseTime, the sum divided and the divisor.
NoAverage == <<0, 1>>
NoSummary == [total |-> 0, successful |-> 0, failed |-> 0, byType |-> <<>>,
              byStatus |-> [failed |-> 0, groups |-> <<>>],
              averageResponseTime |-> NoAverage]
NoResult == [records |-> <<>>, summary |-> NoSummary, made |-> FALSE]

\* The document a click or a fill works on: the element its selector matches
\* (absent, present but hidden, visible), that element's tagName, maxLength
\* and value, the element of --wait-for, and what the script did to it.
ElementStates == {"absent", "hidden", "visible"}
Tags == {"INPUT", "DIV"}
FillableTags == {"input", "textarea", "select"}
MaxLengths == {1, 2}
OldValue == <<"x">>
BlankPage == [loaded |-> FALSE, target |-> "absent", tag |-> "DIV", maxLength |-> 2,
              value |-> OldValue, waitFor |-> "absent", clicks |-> 0, fills |-> <<>>]

\* A path of the file system: the --output given, or a name of the output
\* directory with the Date.now() it embeds.
NoPath == <<"none", 0>>
\* The options of the screenshot call createScreenshot made, and whether it
\* was the element's or the page's.
NoShot == [of |-> "none", fullPage |-> FALSE, path |-> NoPath]

\* The locals of click and fill: elementInfo, actualValue and the Error that
\* reached outputError; of screenshot and snapshot: outputPath and the
\* screenshot taken.
NoElementInfo == [got |-> FALSE, visible |-> FALSE, tagName |-> "none"]
NoInfo == [elementInfo |-> NoElementInfo, actualValue |-> NoValue, read |-> FALSE,
           error |-> "none", outputPath |-> NoPath, shot |-> NoShot]

\* The clock readings of a monitor run: when its listeners were attached,
\* when its setTimeout was started and when it fired.
NoWindow == [attachedAt |-> -1, waitFrom |-> -1, expiredAt |-> -1]

\* The document snapshot and getElementInfo read: body is node 0 and the
\* nodes below it are numbered in document order. Of each node: its parent,
\* tagName, id and class attributes, the size of its box and its CSS
\* visibility.
Nodes == 1..MaxNodes
Body == 0
DomTags == {"BUTTON", "DIV"}
Ids == {"", "x"}
ClassAttrs == {"", " ", "c d"}
Boxes == [width : {0, 1}, height : {0, 1}]
Sized == [width |-> 1, height |-> 1]
Visibilities == {"visible", "hidden"}
NoDom == [loaded |-> FALSE, layouts |-> 0,
          parent |-> [n \in Nodes |-> Body],
          tag |-> [n \in Nodes |-> "DIV"],
          id |-> [n \in Nodes |-> ""],
          class |-> [n \in Nodes |-> ""],
          box |-> [n \in Nodes |-> Sized],
          visibility |-> [n \in Nodes |-> "visible"]]
NoDescriptor == [got |-> FALSE, node |-> 0, visible |-> FALSE,
                 position |-> [width |-> 0, height |-> 0]]

\* The file system getOutputDirectory reads: CLAUDE_PROJECT_DIR (unset, the
\* empty string or a directory), process.cwd() as the names below the root,
\* and of the root and of each ancestor of the working directory the marker
\* files it holds. A directory is the sequence of the names of its path.
NoDir == <<"none">>
DirNames == {"a", "node_modules"}
Depths == 0..MaxDepth
Markers == {"none", "priority", "secondary"}
EnvDirs == {<<"unset">>, <<>>, <<"proj">>}
NoFs == [started |-> FALSE, env |-> <<"unset">>, cwd |-> <<>>,
         markers |-> [d \in Depths |-> "none"]]

\* No argv given, nothing parsed.
NoArgv == <<"none">>
NoParsed == [made |-> FALSE, args |-> <<>>]

NoPrev == [ok |-> FALSE, sessionId |-> <<0, 0>>, keep |-> FALSE]
NoOptions == [browser |-> "undefined", headless |-> TRUE]

VARIABLES
    currentSession,  \* the module-level slot: NoSession or a DebugSession
    engine,          \* engine[e]: "none", "connected", "disconnected", "closed"
    engineKind,      \* engineKind[e]: the browser type launched, "none" before
    engineHeadless,  \* engineHeadless[e]: launchOptions.headless
    context,         \* context[e]: "none", "open", "closed"
    now,             \* Date.now()
    issued,          \* every DebugSession registered by this process, in order
    pc,              \* pc[c]: where caller c's registry call is suspended
    op,              \* op[c]: "none", "acquire", "release"
    options,         \* options[c]: the BrowserOptions of the call
    browser,         \* browser[c]: the local `browser` of getBrowserSession
    ret,             \* ret[c]: the value the call resolved with
    slotAtCall,      \* currentSession when caller c's call started
    trail,           \* trail[c]: the awaits of the call so far, with their outcome
    cmd,             \* the script this process runs, "none" before the first
    args,            \* its parsed arguments
    cmdpc,           \* where the script's async main function is suspended
    session,         \* its local `session`
    stdout,          \* what outputJSON printed: one record per object
    stderr,          \* what went to standard error: "envelope", "warning", "raw"
    exitCode,        \* -1 while the process runs, then its exit status
    inv,             \* how many processes have been started
    prev,            \* the result of the process before this one
    listening,       \* the monitor's page.on listeners are attached
    net,             \* net[r]: the engine's request r: state, resourceType, status
    requestData,     \* requestData[r]: the _requestData stored on request r
    bodyRead,        \* bodyRead[r]: the response listener awaiting response.text()
    requests,        \* the network monitor's `requests` array
    messages,        \* the console monitor's `messages` array
    emitted,         \* response, requestfailed and console events emitted so far
    unhandled,       \* promise rejections nothing handled
    summary,         \* the monitor's summary, as computed so far
    result,          \* the result object as serialised by JSON.stringify
    page,            \* the document of the session's page
    info,            \* the locals of click and fill
    written,         \* the paths this process has written a file at
    window,          \* the clock readings of the monitor's run
    dom,             \* the element tree of the document
    snapshots,       \* the `elements` each snapshot's page.evaluate returned
    descriptor,      \* what getElementInfo returned last
    fs,              \* the environment, working directory and marker files
    outputDir,       \* what getOutputDirectory returned last
    argv,            \* process.argv.slice(2)
    parsed           \* what parseArgs returned last

sessVars == <<currentSession, engine, engineKind, engineHeadless, context, now, issued>>
callVars == <<pc, op, options, browser, ret, slotAtCall, trail>>

cliVars == <<cmd, args, cmdpc, session, stdout, stderr, exitCode, inv, prev>>

monVars == <<listening, net, requestData, bodyRead, requests, messages, emitted,
             unhandled, summary, result>>

domVars == <<page, info>>

libVars == <<fs, outputDir, argv, parsed>>

envVars == <<written, window, dom, snapshots, descriptor, libVars>>

vars == <<sessVars, callVars, cliVars, monVars, domVars, envVars>>

----------------------------------------------------------------------------
\* browser.isConnected()
IsConnected(e) == e \in Engines /\ engine[e] = "connected"

\* The engines launched so far.
Launched == {e \in Engines : engine[e] # "none"}

\* The launched engines still alive: neither closed nor disconnected.
Alive == {e \in Engines : engine[e] = "connected"}

\* getBrowserType(name): firefox, webkit, and chromium for everything else.
GetBrowserType(name) ==
    CASE name = "firefox" -> "firefox"
      [] name = "webkit" -> "webkit"
      [] OTHER -> "chromium"

\* generateSessionId(): `session_${Date.now()}_${random}`
GenerateSessionId(r) == <<now, r>>

IsReusable_NoConnectedCheck(s) == s # NoSession

\* `currentSession && currentSession.browser.isConnected()`
IsReusable(s) == s # NoSession /\ IsConnected(s.browser)

\* getExistingSession()
GetExistingSession == IF IsReusable(currentSession) THEN currentSession ELSE NoSession

\* getCurrentPage(): the page of the slot, whatever its connection state.
GetCurrentPage == currentSession.browser

\* The call of caller c moves to its next await, or settles.
Step(c, to, what) ==
    /\ pc' = [pc EXCEPT ![c] = to]
    /\ trail' = [trail EXCEPT ![c] = Append(@, what)]

----------------------------------------------------------------------------
\* getBrowserSession(options), up to the first await.
AcquireBody(c, o, reuse) ==
    /\ pc[c] = "idle"
    /\ op' = [op EXCEPT ![c] = "acquire"]
    /\ options' = [options EXCEPT ![c] = o]
    /\ slotAtCall' = [slotAtCall EXCEPT ![c] = currentSession]
    /\ trail' = [trail EXCEPT ![c] = <<>>]
    /\ IF reuse
          THEN /\ pc' = [pc EXCEPT ![c] = "returned"]
               /\ ret' = [ret EXCEPT ![c] = currentSession]
          ELSE /\ pc' = [pc EXCEPT ![c] = "launch"]
               /\ ret' = [ret EXCEPT ![c] = NoSession]
    /\ UNCHANGED <<sessVars, browser>>

CallAcquire_MatchOptions(c, o) ==
    AcquireBody(c, o, IsReusable(currentSession)
                      /\ engineKind[currentSession.browser] = GetBrowserType(o.browser))

CallAcquire(c, o) == AcquireBody(c, o, IsReusable(currentSession))

\* `await browserType.launch(launchOptions)` resolves; newContext is requested.
\* Starting an engine process takes time: the clock has moved on.
LaunchBody(c, register) ==
    /\ pc[c] = "launch"
    /\ \E e \in Engines :
          /\ engine[e] = "none"
          /\ \A d \in Engines : d < e => engine[d] # "none"
          /\ engine' = [engine EXCEPT ![e] = "connected"]
          /\ engineKind' = [engineKind EXCEPT ![e] = GetBrowserType(options[c].browser)]
          /\ engineHeadless' = [engineHeadless EXCEPT ![e] = options[c].headless]
          /\ browser' = [browser EXCEPT ![c] = e]
          /\ IF register
                THEN \E r \in RandomParts :
                        LET s == [browser |-> e, sessionId |-> <<now + 1, r>>]
                        IN /\ currentSession' = s
                           /\ issued' = Append(issued, s)
                ELSE UNCHANGED <<currentSession, issued>>
    /\ now' = now + 1
    /\ Step(c, "context", "launch:ok")
    /\ UNCHANGED <<context, op, options, ret, slotAtCall>>

LaunchOk_RegistersEarly(c) == LaunchBody(c, TRUE)

LaunchOk(c) == LaunchBody(c, FALSE)

\* `await browserType.launch(...)` rejects: the call rejects.
LaunchFail(c) ==
    /\ pc[c] = "launch"
    /\ Step(c, "threw", "launch:fail")
    /\ UNCHANGED <<sessVars, op, options, browser, ret, slotAtCall>>

\* `await browser.newContext(...)` resolves; newPage is requested.
ContextOk(c) ==
    /\ pc[c] = "context"
    /\ IsConnected(browser[c])
    /\ context' = [context EXCEPT ![browser[c]] = "open"]
    /\ Step(c, "page", "context:ok")
    /\ UNCHANGED <<currentSession, engine, engineKind, engineHeadless, now, issued,
                   op, options, browser, ret, slotAtCall>>

\* `await browser.newContext(...)` rejects.
ContextFail(c) ==
    /\ pc[c] = "context"
    /\ Step(c, "threw", "context:fail")
    /\ UNCHANGED <<sessVars, op, options, browser, ret, slotAtCall>>

\* `await context.newPage()` resolves; the session is registered and returned.
PageOk(c) ==
    /\ pc[c] = "page"
    /\ IsConnected(browser[c])
    /\ \E r \in RandomParts :
          LET s == [browser |-> browser[c], sessionId |-> GenerateSessionId(r)]
          IN /\ currentSession' = s
             /\ ret' = [ret EXCEPT ![c] = s]
             /\ issued' = Append(issued, s)
    /\ Step(c, "returned", "page:ok")
    /\ UNCHANGED <<engine, engineKind, engineHeadless, context, now, op, options,
                   browser, slotAtCall>>

\* `await context.newPage()` rejects.
PageFail(c) ==
    /\ pc[c] = "page"
    /\ Step(c, "threw", "page:fail")
    /\ UNCHANGED <<sessVars, op, options, browser, ret, slotAtCall>>

----------------------------------------------------------------------------
\* closeBrowserSession(), up to the first await.
CallRelease(c) ==
    /\ pc[c] = "idle"
    /\ op' = [op EXCEPT ![c] = "release"]
    /\ options' = [options EXCEPT ![c] = NoOptions]
    /\ slotAtCall' = [slotAtCall EXCEPT ![c] = currentSession]
    /\ trail' = [trail EXCEPT ![c] = <<>>]
    /\ ret' = [ret EXCEPT ![c] = Void]
    /\ pc' = [pc EXCEPT ![c] = IF currentSession # NoSession
                                  THEN "contextClose" ELSE "returned"]
    /\ UNCHANGED <<sessVars, browser>>

\* `await currentSession.context.close()` resolves; browser.close() is requested.
ContextCloseOk(c) ==
    /\ pc[c] = "contextClose"
    /\ currentSession # NoSession
    /\ context' = [context EXCEPT ![currentSession.browser] = "closed"]
    /\ Step(c, "browserClose", "contextClose:ok")
    /\ UNCHANGED <<currentSession, engine, engineKind, engineHeadless, now, issued,
                   op, options, browser, ret, slotAtCall>>

\* `await currentSession.context.close()` rejects: the call rejects there.
ContextCloseFail(c) ==
    /\ pc[c] = "contextClose"
    /\ Step(c, "threw", "contextClose:fail")
    /\ UNCHANGED <<sessVars, op, options, browser, ret, slotAtCall>>

\* `await currentSession.browser.close()` resolves; the slot is cleared.
BrowserCloseOk(c) ==
    /\ pc[c] = "browserClose"
    /\ currentSession # NoSession
    /\ engine' = [engine EXCEPT ![currentSession.browser] = "closed"]
    /\ currentSession' = NoSession
    /\ Step(c, "returned", "browserClose:ok")
    /\ UNCHANGED <<engineKind, engineHeadless, context, now, issued, op, options,
                   browser, ret, slotAtCall>>

\* `await currentSession.browser.close()` rejects.
BrowserCloseFail(c) ==
    /\ pc[c] = "browserClose"
    /\ Step(c, "threw", "browserClose:fail")
    /\ UNCHANGED <<sessVars, op, options, browser, ret, slotAtCall>>

\* The engine process dies or its connection drops: isConnected() turns false
\* and stays false.
Disconnect(e) ==
    /\ engine[e] = "connected"
    /\ engine' = [engine EXCEPT ![e] = "disconnected"]
    /\ UNCHANGED <<currentSession, engineKind, engineHeadless, context, now, issued,
                   callVars>>

\* The caller takes the settled promise; the frame of the call is gone.
Resume(c) ==
    /\ pc[c] \in {"returned", "threw"}
    /\ pc' = [pc EXCEPT ![c] = "idle"]
    /\ op' = [op EXCEPT ![c] = "none"]
    /\ options' = [options EXCEPT ![c] = NoOptions]
    /\ browser' = [browser EXCEPT ![c] = 0]
    /\ ret' = [ret EXCEPT ![c] = NoSession]
    /\ slotAtCall' = [slotAtCall EXCEPT ![c] = NoSession]
    /\ trail' = [trail EXCEPT ![c] = <<>>]
    /\ UNCHANGED sessVars

----------------------------------------------------------------------------
\* The module as loaded: `let currentSession = null`, nothing launched.
RegInit ==
    /\ currentSession = NoSession
    /\ engine = [e \in Engines |-> "none"]
    /\ engineKind = [e \in Engines |-> "none"]
    /\ engineHeadless = [e \in Engines |-> TRUE]
    /\ context = [e \in Engines |-> "none"]
    /\ now = 0
    /\ issued = <<>>
    /\ pc = [c \in Callers |-> "idle"]
    /\ op = [c \in Callers |-> "none"]
    /\ options = [c \in Callers |-> NoOptions]
    /\ browser = [c \in Callers |-> 0]
    /\ ret = [c \in Callers |-> NoSession]
    /\ slotAtCall = [c \in Callers |-> NoSession]
    /\ trail = [c \in Callers |-> <<>>]

\* No process yet.
CliInit ==
    /\ cmd = "none"
    /\ args = NoArgs
    /\ cmdpc = "none"
    /\ session = NoSession
    /\ stdout = <<>>
    /\ stderr = <<>>
    /\ exitCode = -1
    /\ inv = 0
    /\ prev = NoPrev

\* No document is loaded.
DomInit ==
    /\ page = BlankPage
    /\ info = NoInfo

\* No file written, no timer started, no element tree read.
EnvInit ==
    /\ written = {}
    /\ window = NoWindow
    /\ dom = NoDom
    /\ snapshots = <<>>
    /\ descriptor = NoDescriptor
    /\ fs = NoFs
    /\ outputDir = NoDir
    /\ argv = NoArgv
    /\ parsed = NoParsed

\* No listener, no event, nothing recorded.
MonInit ==
    /\ listening = FALSE
    /\ net = [r \in Requests |-> Unsent]
    /\ requestData = [r \in Requests |-> NoData]
    /\ bodyRead = [r \in Requests |-> NoRead]
    /\ requests = <<>>
    /\ messages = <<>>
    /\ emitted = 0
    /\ unhandled = 0
    /\ summary = NoSummary
    /\ result = NoResult

\* No other call is in flight: commands run one after the other in a process.
Quiet(c) == \A d \in Callers \ {c} : pc[d] = "idle"

\* The awaits of getBrowserSession and closeBrowserSession settling.
RegistrySteps(c) ==
    \/ LaunchOk(c)
    \/ LaunchFail(c)
    \/ ContextOk(c)
    \/ ContextFail(c)
    \/ PageOk(c)
    \/ PageFail(c)
    \/ ContextCloseOk(c)
    \/ ContextCloseFail(c)
    \/ BrowserCloseOk(c)
    \/ BrowserCloseFail(c)

\* The registry driven by one caller at a time, any sequence of calls.
NextReg ==
    \/ \E o \in BrowserOptions :
          Quiet(Main) /\ CallAcquire(Main, o) /\ UNCHANGED <<cliVars, monVars, domVars, envVars>>
    \/ Quiet(Main) /\ CallRelease(Main) /\ UNCHANGED <<cliVars, monVars, domVars, envVars>>
    \/ RegistrySteps(Main) /\ UNCHANGED <<cliVars, monVars, domVars, envVars>>
    \/ \E e \in Engines : Disconnect(e) /\ UNCHANGED <<cliVars, monVars, domVars, envVars>>
    \/ Resume(Main) /\ UNCHANGED <<cliVars, monVars, domVars, envVars>>

\* Nothing is registered, no script runs, no page is monitored.
Init == RegInit /\ CliInit /\ MonInit /\ DomInit /\ EnvInit

SpecReg == Init /\ [][NextReg]_vars

----------------------------------------------------------------------------
(* Claims about the session registry.                                      *)

Finished(c, o) == op[c] = o /\ pc[c] \in {"returned", "threw"}

Tried(c, what) == \E i \in 1..Len(trail[c]) : trail[c][i] = what

\* C5: release() on an existing session closes the context, then the engine,
\* then clears the slot; when closing the context fails, closing the engine is
\* still attempted and, once the engine is closed, the slot is cleared.
C5_ReleaseIsBestEffort ==
    \A c \in Callers :
        (Finished(c, "release") /\ slotAtCall[c] # NoSession) =>
            /\ Tried(c, "browserClose:ok") \/ Tried(c, "browserClose:fail")
            /\ Tried(c, "browserClose:ok") =>
                  /\ engine[slotAtCall[c].browser] = "closed"
                  /\ currentSession = NoSession

\* C6: at most one session per process: at most one engine launched by the
\* process is alive (launched and neither closed nor disconnected), and the
\* registered session, if any, is on a launched engine.
C6_AtMostOneLiveEngine ==
    /\ Cardinality(Alive) <= 1
    /\ currentSession # NoSession => currentSession.browser \in Launched

\* C7: acquire() with a connected session registered settles at once with that
\* very session, launches nothing and leaves the registry as it was, whatever
\* the options.
C7_ReuseLeavesRegistry ==
    [][\A c \in Callers :
          (pc[c] = "idle" /\ op'[c] = "acquire" /\ pc'[c] # "idle"
             /\ currentSession # NoSession /\ IsConnected(currentSession.browser)) =>
               /\ pc'[c] = "returned"
               /\ ret'[c] = currentSession
               /\ currentSession' = currentSession
               /\ issued' = issued
               /\ engine' = engine]_vars

C7_Witness ==
    \E c \in Callers :
        /\ Finished(c, "acquire") /\ pc[c] = "returned"
        /\ slotAtCall[c] # NoSession
        /\ ret[c] = slotAtCall[c]
        /\ trail[c] = <<>>
        /\ engineKind[ret[c].browser] # GetBrowserType(options[c].browser)
        /\ engineHeadless[ret[c].browser] # options[c].headless

\* C8: a session whose engine is no longer connected is never handed out, by
\* acquire() or by the existing-session lookup, and a session registered later
\* carries a sessionId no earlier session carried.
C8_DisconnectIsTerminal ==
    [][/\ \A c \in Callers :
             (pc[c] # "returned" /\ pc'[c] = "returned" /\ op'[c] = "acquire") =>
                 engine'[ret'[c].browser] = "connected"
       /\ (GetExistingSession # NoSession) =>
             engine[GetExistingSession.browser] = "connected"
       /\ Len(issued') > Len(issued) =>
             \A i \in 1..Len(issued) :
                 issued[i].sessionId # issued'[Len(issued')].sessionId]_vars

C8_Witness ==
    \E c \in Callers :
        /\ Finished(c, "acquire") /\ pc[c] = "returned"
        /\ slotAtCall[c] # NoSession
        /\ engine[slotAtCall[c].browser] = "disconnected"
        /\ ret[c] # slotAtCall[c]
        /\ ret[c] = currentSession
        /\ Len(issued) = 2

\* C9: when launch, context creation or page creation fails, acquire() rejects
\* and the slot is what it was when the call started: the engine the call
\* launched is in no registered session.
C9_FailedAcquireRegistersNothing ==
    \A c \in Callers :
        (op[c] = "acquire" /\ pc[c] # "idle") =>
            /\ (Tried(c, "launch:fail") \/ Tried(c, "context:fail")
                  \/ Tried(c, "page:fail")) <=> pc[c] = "threw"
            /\ pc[c] = "threw" =>
                  /\ currentSession = slotAtCall[c]
                  /\ \A i \in 1..Len(issued) : issued[i].browser # browser[c]

C9_Witness ==
    \E c \in Callers :
        /\ Finished(c, "acquire") /\ pc[c] = "threw"
        /\ Tried(c, "launch:ok")
        /\ slotAtCall[c] # NoSession

----------------------------------------------------------------------------
(* The command scripts: one process per invocation, run one after another. *)

Running == cmdpc \notin {"none", "exited"}

\* The argument check each script makes before its try block.
ArgsValid_NoCheck(c, a) == TRUE

ArgsValid(c, a) ==
    CASE c \in {"navigate", "network", "performance"} -> a.url
      [] c = "screenshot" -> a.url \/ a.req
      [] c = "snapshot" -> TRUE
      [] c \in {"evaluate", "click", "fill"} -> a.req
      [] c = "console" -> a.url \/ GetExistingSession # NoSession

\* The arguments a script reads; the others are ignored. The monitoring
\* window is of no tick unless WindowArgs gives it one.
ArgsOf(c) ==
    {a \in Args :
        /\ a.req => c \in {"screenshot", "evaluate", "click", "fill"}
        /\ a.output => c \in {"screenshot", "snapshot", "network"}
        /\ a.types => c \in Monitors
        /\ a.waitFor => c = "click"
        /\ a.clear => c = "fill"
        /\ a.fullPage => c = "screenshot"
        /\ a.duration = 0
        /\ ~a.noNavigation
        /\ a.value # NoValue <=> (c = "fill" /\ a.req)}

\* The arguments of a monitor with any --duration.
WindowArgs(c) == {[a EXCEPT !.duration = d] : a \in ArgsOf(c), d \in Durations}

\* The arguments of the console monitor with or without --no-navigation true.
NavigationArgs(c) ==
    {[a EXCEPT !.noNavigation = n] : a \in ArgsOf(c), n \in BOOLEAN}

\* The fields of the object each script hands to outputJSON.
Common == {"success", "url", "title", "sessionId", "timestamp"}

SummaryFields == {"totalRequests", "successfulRequests", "failedRequests",
                  "totalSize", "averageResponseTime", "requestsByType",
                  "requestsByStatus"}

ResultFields(c, a) ==
    CASE c = "navigate" -> Common
      [] c = "screenshot" -> Common \cup {"outputPath", "fullPage", "selector", "size"}
      [] c = "snapshot" -> {"success", "output", "elementCount", "url"}
      [] c = "evaluate" -> Common \cup {"script", "result"}
      [] c \in {"click", "fill"} -> Common \cup {"action"}
      [] c = "console" -> Common \cup {"monitoring", "messages"}
      [] c = "network" ->
            IF a.output THEN {"success", "output", "url"} \cup SummaryFields
                        ELSE Common \cup {"monitoring", "requests"}
      [] c = "performance" -> Common \cup {"metrics", "vitals", "resources", "trace"}

\* shouldNavigate of the console monitor once it holds its session: not
\* suppressed by --no-navigation true and not turned off by the existing
\* session found when no --url was given.
ShouldNavigate(a) == ~a.noNavigation /\ a.url

\* The await a script reaches once it holds its session.
AfterAcquire(c, a) ==
    IF c = "console" /\ ~ShouldNavigate(a)
       THEN "wait"
       ELSE IF c \in {"navigate", "network", "performance", "console"} \/ a.url
               THEN "goto"
               ELSE IF c \in {"click", "fill"} THEN "find" ELSE "act"

\* ... after page.goto, a monitor not waiting for its window.
AfterGoto_SkipsWait(c) == IF c \in {"click", "fill"} THEN "find" ELSE "title"

\* ... after page.goto
AfterGoto(c) ==
    CASE c = "navigate" -> "title"
      [] c \in Monitors -> "wait"
      [] c \in {"click", "fill"} -> "find"
      [] OTHER -> "act"

\* ... and whether writeFile is awaited before outputJSON.
WritesFile(c, a) == c = "snapshot" \/ (c = "network" /\ a.output)

\* outputError(error): the error object to stderr, then process.exit(1).
OutputError ==
    /\ stderr' = Append(stderr, "envelope")
    /\ exitCode' = 1
    /\ cmdpc' = "exited"
    /\ UNCHANGED <<cmd, args, session, stdout, inv, prev>>

\* What the finished process leaves for the next one to be compared with.
Outcome ==
    IF stdout # <<>> /\ "sessionId" \in stdout[1].fields
       THEN [ok |-> TRUE, sessionId |-> stdout[1].sessionId,
             keep |-> args.close = "false"]
       ELSE NoPrev

\* A new process is started for script c with arguments a: the module is
\* loaded afresh, so the slot is null and no engine handle exists.
Spawn(c, a) ==
    /\ cmdpc \in {"none", "exited"}
    /\ inv < MaxInvocations
    /\ inv' = inv + 1
    /\ prev' = Outcome
    /\ cmd' = c
    /\ args' = a
    /\ cmdpc' = "main"
    /\ session' = NoSession
    /\ stdout' = <<>>
    /\ stderr' = <<>>
    /\ exitCode' = -1
    /\ currentSession' = NoSession
    /\ engine' = [e \in Engines |-> "none"]
    /\ engineKind' = [e \in Engines |-> "none"]
    /\ engineHeadless' = [e \in Engines |-> TRUE]
    /\ context' = [e \in Engines |-> "none"]
    /\ issued' = <<>>
    /\ pc' = [k \in Callers |-> "idle"]
    /\ op' = [k \in Callers |-> "none"]
    /\ options' = [k \in Callers |-> NoOptions]
    /\ browser' = [k \in Callers |-> 0]
    /\ ret' = [k \in Callers |-> NoSession]
    /\ slotAtCall' = [k \in Callers |-> NoSession]
    /\ trail' = [k \in Callers |-> <<>>]
    /\ listening' = FALSE
    /\ net' = [r \in Requests |-> Unsent]
    /\ requestData' = [r \in Requests |-> NoData]
    /\ bodyRead' = [r \in Requests |-> NoRead]
    /\ requests' = <<>>
    /\ messages' = <<>>
    /\ emitted' = 0
    /\ unhandled' = 0
    /\ summary' = NoSummary
    /\ result' = NoResult
    /\ page' = BlankPage
    /\ info' = NoInfo
    /\ written' = {}
    /\ window' = NoWindow
    /\ UNCHANGED <<now, dom, snapshots, descriptor, libVars>>

\* The script's main function up to its first await: the argument check, then
\* getBrowserSession.
RunMain ==
    /\ cmdpc = "main"
    /\ UNCHANGED <<monVars, domVars, envVars>>
    /\ IF ArgsValid(cmd, args)
          THEN /\ CallAcquire(Main, NoOptions)
               /\ cmdpc' = "acquire"
               /\ UNCHANGED <<cmd, args, session, stdout, stderr, exitCode, inv, prev>>
          ELSE /\ OutputError
               /\ UNCHANGED <<sessVars, callVars>>

\* `await getBrowserSession(...)` resolves; a monitor attaches its listeners
\* before it navigates.
AcquireDone ==
    /\ cmdpc = "acquire"
    /\ pc[Main] = "returned"
    /\ session' = ret[Main]
    /\ Resume(Main)
    /\ cmdpc' = AfterAcquire(cmd, args)
    /\ listening' = (cmd \in Monitors)
    /\ window' = IF cmd \in Monitors
                    THEN [window EXCEPT
                            !.attachedAt = now,
                            !.waitFrom = IF AfterAcquire(cmd, args) = "wait"
                                            THEN now ELSE @]
                    ELSE window
    /\ UNCHANGED <<net, requestData, bodyRead, requests, messages, emitted,
                   unhandled, summary, result>>
    /\ UNCHANGED <<cmd, args, stdout, stderr, exitCode, inv, prev>>
    /\ UNCHANGED <<domVars, written, dom, snapshots, descriptor, libVars>>

\* `await getBrowserSession(...)` rejects: the catch block.
AcquireThrew ==
    /\ cmdpc = "acquire"
    /\ pc[Main] = "threw"
    /\ Resume(Main)
    /\ OutputError
    /\ UNCHANGED <<monVars, domVars, envVars>>

\* An await of the script's body resolves.
Proceed(at, to) ==
    /\ cmdpc = at
    /\ cmdpc' = to
    /\ UNCHANGED <<cmd, args, session, stdout, stderr, exitCode, inv, prev>>
    /\ UNCHANGED <<sessVars, callVars>>
    /\ UNCHANGED <<listening, net, requestData, bodyRead, requests, messages,
                   emitted, unhandled>>

\* An await of the script's body rejects, or the script calls outputError
\* itself (click and fill on an invisible element): the catch block.
Fail(at) ==
    /\ cmdpc = at
    /\ OutputError
    /\ UNCHANGED <<sessVars, callVars, monVars, domVars, envVars>>

\* result.action of fill: value, actualValue, cleared.
NoAction == [value |-> NoValue, actualValue |-> NoValue, cleared |-> FALSE]

ActionOf ==
    IF cmd = "fill"
       THEN [value |-> args.value, actualValue |-> info.actualValue,
             cleared |-> args.clear]
       ELSE NoAction

\* The file a result reports: outputPath, fullPage and selector of
\* screenshot, output of snapshot and of network --output.
NoCapture == [outputPath |-> NoPath, fullPage |-> FALSE, selector |-> FALSE]

CaptureOf ==
    CASE cmd = "screenshot" ->
            [outputPath |-> info.outputPath, fullPage |-> args.fullPage,
             selector |-> args.req]
      [] WritesFile(cmd, args) ->
            [outputPath |-> info.outputPath, fullPage |-> FALSE, selector |-> FALSE]
      [] OTHER -> NoCapture

\* outputJSON(result), then process.exit(0) whatever --close says.
Emit_KeepsOpen ==
    /\ stdout' = Append(stdout,
                   [fields |-> ResultFields(cmd, args),
                    sessionId |-> IF "sessionId" \in ResultFields(cmd, args)
                                     THEN session.sessionId ELSE <<0, 0>>,
                    action |-> ActionOf,
                    capture |-> CaptureOf])
    /\ cmdpc' = "exited"
    /\ exitCode' = 0
    /\ UNCHANGED <<stderr, sessVars, callVars>>
    /\ UNCHANGED <<cmd, args, session, inv, prev>>
    /\ UNCHANGED <<listening, net, requestData, bodyRead, requests, messages,
                   emitted, unhandled>>

\* outputJSON(result), then closeBrowserSession() unless --close false, in
\* which case process.exit(0).
Emit ==
    /\ stdout' = Append(stdout,
                   [fields |-> ResultFields(cmd, args),
                    sessionId |-> IF "sessionId" \in ResultFields(cmd, args)
                                     THEN session.sessionId ELSE <<0, 0>>,
                    action |-> ActionOf,
                    capture |-> CaptureOf])
    /\ IF args.close # "false"
          THEN /\ CallRelease(Main)
               /\ cmdpc' = "release"
               /\ UNCHANGED <<stderr, exitCode>>
          ELSE /\ cmdpc' = "exited"
               /\ exitCode' = 0
               /\ UNCHANGED <<stderr, sessVars, callVars>>
    /\ UNCHANGED <<cmd, args, session, inv, prev>>
    /\ UNCHANGED <<listening, net, requestData, bodyRead, requests, messages,
                   emitted, unhandled>>

IsFailed(rec) == rec.failed

\* requests.filter(r => r.failed).length
FailedRequests(seq) == Cardinality({i \in 1..Len(seq) : IsFailed(seq[i])})

\* requests.reduce counting the records of each resourceType.
RequestsByType(seq) ==
    [t \in ResourceTypes |-> Cardinality({i \in 1..Len(seq) : seq[i].resourceType = t})]

\* messages.reduce counting the messages of each type.
MessagesByType(seq) ==
    [t \in ConsoleTypes |-> Cardinality({i \in 1..Len(seq) : seq[i].type = t})]

\* requests.filter(r => !r.failed).length
SuccessfulRequests(seq) == Cardinality({i \in 1..Len(seq) : ~IsFailed(seq[i])})

\* requests.reduce counting the failed records under 'failed' and the others
\* under the group of their status.
RequestsByStatus(seq) ==
    [failed |-> Cardinality({i \in 1..Len(seq) : seq[i].failed}),
     groups |-> [g \in StatusGroups |->
                    Cardinality({i \in 1..Len(seq) :
                        ~seq[i].failed /\ StatusGroup(seq[i].status) = g})]]

\* requests.reduce((sum, r) => sum + r.timing.duration, 0)
RECURSIVE TotalDuration(_)
TotalDuration(seq) ==
    IF seq = <<>> THEN 0 ELSE Head(seq).duration + TotalDuration(Tail(seq))

\* The sum of the durations over requests.length, or 0 without a record.
AverageResponseTime(seq) ==
    IF Len(seq) > 0 THEN <<TotalDuration(seq), Len(seq)>> ELSE <<0, 1>>

\* The summary as the monitors compute it once the window has expired: the
\* network monitor all of it, the console monitor its messageCountByType.
SummaryAtExpiry ==
    CASE cmd = "network" ->
            [total |-> Len(requests),
             successful |-> SuccessfulRequests(requests),
             failed |-> FailedRequests(requests),
             byType |-> RequestsByType(requests),
             byStatus |-> RequestsByStatus(requests),
             averageResponseTime |-> AverageResponseTime(requests)]
      [] cmd = "console" ->
            [NoSummary EXCEPT !.byType = MessagesByType(messages)]
      [] OTHER -> NoSummary

\* The result object once the title is known, with the pending requests
\* flushed into it.
ResultAtTitle_WithPending ==
    [records |-> IF \E r \in Requests :
                      net[r].state = "sent" /\ requestData[r] # NoData
                    THEN Append(requests,
                           [req |-> CHOOSE r \in Requests :
                                      net[r].state = "sent" /\ requestData[r] # NoData,
                            type |-> "request", resourceType |-> "xhr",
                            status |-> 0, failed |-> FALSE, size |-> 0,
                            startTime |-> 0, endTime |-> 0, duration |-> 0,
                            seq |-> 0])
                    ELSE requests,
     summary |-> summary,
     made |-> TRUE]

\* The result object once the title is known: the console monitor reads
\* messages.length here; the record arrays are serialised as they are now.
ResultAtTitle ==
    [records |-> CASE cmd = "network" -> requests
                   [] cmd = "console" -> messages
                   [] OTHER -> <<>>,
     summary |-> IF cmd = "console"
                    THEN [summary EXCEPT !.total = Len(messages)] ELSE summary,
     made |-> TRUE]

\* The documents page.goto can load for script c.
Documents(c) ==
    CASE c = "click" ->
            {d \in [loaded : {TRUE}, target : ElementStates, tag : Tags,
                    maxLength : {2}, value : {OldValue},
                    waitFor : {"absent", "visible"}, clicks : {0}, fills : {<<>>}] :
                TRUE}
      [] c = "fill" ->
            {d \in [loaded : {TRUE}, target : ElementStates, tag : Tags,
                    maxLength : MaxLengths, value : {OldValue},
                    waitFor : {"absent"}, clicks : {0}, fills : {<<>>}] :
                TRUE}
      [] OTHER -> {[page EXCEPT !.loaded = TRUE]}

GotoOk ==
    /\ IsConnected(session.browser)
    /\ Proceed("goto", AfterGoto(cmd))
    /\ page' \in Documents(cmd)
    /\ window' = IF cmd \in Monitors
                    THEN [window EXCEPT !.waitFrom = now] ELSE window
    /\ UNCHANGED <<summary, result, info, written, dom, snapshots, descriptor, libVars>>

GotoFail == Fail("goto")

\* args.output || join(getOutputDirectory(), `<script>_${Date.now()}.<ext>`)
OutputPath(c, a) == IF a.output THEN <<"output", 0>> ELSE <<c, now>>

\* createScreenshot(page, outputPath, {fullPage, selector}): the screenshot
\* call it makes with screenshotOptions, the element's when a selector is
\* given and the page's, with a path, otherwise.
CreateScreenshot(outputPath, fullPage, selector) ==
    IF selector
       THEN [of |-> "element", fullPage |-> fullPage, path |-> NoPath]
       ELSE [of |-> "page", fullPage |-> fullPage, path |-> outputPath]

\* The files a screenshot call writes: one at its path option, if it has one.
Written(shot) == IF shot.path = NoPath THEN {} ELSE {shot.path}

\* The await of the script's own work resolves: createScreenshot of
\* screenshot, page.evaluate of snapshot, evaluate and performance.
ActOk ==
    /\ IsConnected(session.browser)
    /\ Proceed("act", "title")
    /\ IF cmd = "screenshot"
          THEN LET outputPath == OutputPath(cmd, args)
                   shot == CreateScreenshot(outputPath, args.fullPage, args.req)
               IN  /\ info' = [info EXCEPT !.outputPath = outputPath, !.shot = shot]
                   /\ written' = written \cup Written(shot)
          ELSE UNCHANGED <<info, written>>
    /\ UNCHANGED <<summary, result, page, window, dom, snapshots, descriptor, libVars>>

ActFail == Fail("act")

\* The setTimeout of the monitoring window fires, --duration or more after
\* it was started; the summary is computed and the page title requested.
WaitDone_AwaitsRequests ==
    /\ now >= window.waitFrom + args.duration
    /\ \A r \in Requests : net[r].state # "sent"
    /\ Proceed("wait", "title")
    /\ summary' = SummaryAtExpiry
    /\ window' = [window EXCEPT !.expiredAt = now]
    /\ UNCHANGED <<result, domVars, written, dom, snapshots, descriptor, libVars>>

WaitDone ==
    /\ now >= window.waitFrom + args.duration
    /\ Proceed("wait", "title")
    /\ summary' = SummaryAtExpiry
    /\ window' = [window EXCEPT !.expiredAt = now]
    /\ UNCHANGED <<result, domVars, written, dom, snapshots, descriptor, libVars>>

\* `await session.page.title()` resolves: the result is complete; it goes to
\* writeFile or to outputJSON.
TitleOk ==
    /\ cmdpc = "title"
    /\ IsConnected(session.browser)
    /\ result' = ResultAtTitle
    /\ info' = IF WritesFile(cmd, args)
                  THEN [info EXCEPT !.outputPath = OutputPath(cmd, args)]
                  ELSE info
    /\ UNCHANGED <<summary, page, envVars>>
    /\ IF WritesFile(cmd, args)
          THEN Proceed("title", "write")
          ELSE Emit

TitleFail == Fail("title")

\* `await writeFile(...)` resolves.
WriteOk ==
    /\ cmdpc = "write"
    /\ Emit
    /\ written' = written \cup {info.outputPath}
    /\ UNCHANGED <<summary, result, domVars, window, dom, snapshots, descriptor, libVars>>

WriteFail == Fail("write")

\* `await closeBrowserSession()` resolves: main returns and the process ends.
ReleaseDone ==
    /\ cmdpc = "release"
    /\ pc[Main] = "returned"
    /\ Resume(Main)
    /\ cmdpc' = "exited"
    /\ exitCode' = 0
    /\ UNCHANGED <<cmd, args, session, stdout, stderr, inv, prev>>
    /\ UNCHANGED <<monVars, domVars, envVars>>

\* `await closeBrowserSession()` rejects: the catch block.
ReleaseThrew ==
    /\ cmdpc = "release"
    /\ pc[Main] = "threw"
    /\ Resume(Main)
    /\ OutputError
    /\ UNCHANGED <<monVars, domVars, envVars>>

----------------------------------------------------------------------------
(* click and fill: the element the selector matches.                       *)

\* el.tagName.toLowerCase()
ToLowerCase(t) ==
    CASE t = "INPUT" -> "input"
      [] t = "DIV" -> "div"
      [] t = "BUTTON" -> "button"
      [] OTHER -> t

\* `fillableTags.includes(elementInfo.tagName)`
IsFillable_AnyTag(tagName) == TRUE

IsFillable(tagName) == tagName \in FillableTags

\* What an element of the given maxLength keeps of the text typed into it.
Truncate(v, n) == IF Len(v) <= n THEN v ELSE SubSeq(v, 1, n)

\* The page answers and the selector's element is visible, as
\* page.waitForSelector (state 'visible' by default), page.click and page.fill
\* wait for it to be.
TargetVisible == IsConnected(session.browser) /\ page.target = "visible"

\* An await of click or fill resolves.
Advance(at, to) ==
    /\ cmdpc = at
    /\ cmdpc' = to
    /\ UNCHANGED <<cmd, args, session, stdout, stderr, exitCode, inv, prev>>
    /\ UNCHANGED <<sessVars, callVars, monVars>>

\* outputError(new Error(...)) with one of the element errors, from the
\* script itself or from its catch block.
Throw(at, e) ==
    /\ cmdpc = at
    /\ OutputError
    /\ info' = [info EXCEPT !.error = e]
    /\ UNCHANGED <<sessVars, callVars, monVars, page, envVars>>

\* The page changes the element under the script: it is removed, hidden or
\* shown.
TargetChanges(st) ==
    /\ Running
    /\ cmd \in {"click", "fill"}
    /\ page.loaded
    /\ IsConnected(session.browser)
    /\ st # page.target
    /\ page' = [page EXCEPT !.target = st]
    /\ UNCHANGED <<sessVars, callVars, cliVars, monVars, info, envVars>>

\* `await waitForElement(page, args.selector, waitTimeout)` resolves.
FindOk ==
    /\ TargetVisible
    /\ Advance("find", "info")
    /\ UNCHANGED <<domVars, envVars>>

\* ... rejects: waitForSelector timed out, rethrown as "Element not found".
FindFail ==
    /\ ~TargetVisible
    /\ Throw("find", "not-found")

\* `await getElementInfo(page, args.selector)` resolves, and the checks that
\* follow it: visible, and for fill a fillable tag.
ElementInfoOk ==
    /\ cmdpc = "info"
    /\ IsConnected(session.browser)
    /\ page.target # "absent"
    /\ LET elementInfo == [got |-> TRUE, visible |-> page.target = "visible",
                           tagName |-> ToLowerCase(page.tag)]
       IN  IF ~elementInfo.visible
              THEN /\ OutputError
                   /\ info' = [info EXCEPT !.elementInfo = elementInfo,
                                           !.error = "not-visible"]
           ELSE IF cmd = "fill" /\ ~IsFillable(elementInfo.tagName)
              THEN /\ OutputError
                   /\ info' = [info EXCEPT !.elementInfo = elementInfo,
                                           !.error = "not-fillable"]
           ELSE /\ cmdpc' = CASE cmd = "click" -> "click"
                               [] args.clear -> "clear"
                               [] OTHER -> "fill"
                /\ info' = [info EXCEPT !.elementInfo = elementInfo]
                /\ UNCHANGED <<cmd, args, session, stdout, stderr, exitCode,
                               inv, prev>>
    /\ UNCHANGED <<sessVars, callVars, monVars, page, envVars>>

\* ... rejects: page.$ found no element, or the page is gone.
ElementInfoFail ==
    /\ ~(IsConnected(session.browser) /\ page.target # "absent")
    /\ Throw("info", IF IsConnected(session.browser) THEN "not-found" ELSE "other")

\* `await session.page.click(args.selector)` resolves.
ClickOk ==
    /\ TargetVisible
    /\ Advance("click", IF args.waitFor THEN "waitfor" ELSE "title")
    /\ page' = [page EXCEPT !.clicks = @ + 1]
    /\ UNCHANGED <<info, envVars>>

ClickFail ==
    /\ ~TargetVisible
    /\ Throw("click", "other")

\* `await waitForElement(page, args['wait-for'], waitTimeout)` resolves.
WaitForFail_Throws ==
    /\ ~(IsConnected(session.browser) /\ page.waitFor = "visible")
    /\ Throw("waitfor", "not-found")

WaitForOk ==
    /\ IsConnected(session.browser)
    /\ page.waitFor = "visible"
    /\ Advance("waitfor", "title")
    /\ UNCHANGED <<domVars, envVars>>

\* ... rejects: the inner catch logs a warning with console.warn and the
\* script goes on.
WaitForFail ==
    /\ cmdpc = "waitfor"
    /\ ~(IsConnected(session.browser) /\ page.waitFor = "visible")
    /\ cmdpc' = "title"
    /\ stderr' = Append(stderr, "warning")
    /\ UNCHANGED <<cmd, args, session, stdout, exitCode, inv, prev>>
    /\ UNCHANGED <<sessVars, callVars, monVars, domVars, envVars>>

\* page.fill(selector, v) on an element page.fill accepts.
Filled(v) ==
    [page EXCEPT !.value = Truncate(v, page.maxLength), !.fills = Append(@, v)]

CanFill == TargetVisible /\ ToLowerCase(page.tag) \in {"input", "textarea"}

\* `await session.page.fill(args.selector, '')` resolves.
ClearOk ==
    /\ CanFill
    /\ Advance("clear", "fill")
    /\ page' = Filled(<<>>)
    /\ UNCHANGED <<info, envVars>>

ClearFail ==
    /\ ~CanFill
    /\ Throw("clear", "other")

\* `await session.page.fill(args.selector, args.value)` resolves.
FillOk ==
    /\ CanFill
    /\ Advance("fill", "read")
    /\ page' = Filled(args.value)
    /\ UNCHANGED <<info, envVars>>

FillFail ==
    /\ ~CanFill
    /\ Throw("fill", "other")

\* `await session.page.inputValue(args.selector)` resolves.
ReadOk_ReportsValue ==
    /\ IsConnected(session.browser)
    /\ page.target # "absent"
    /\ Advance("read", "title")
    /\ info' = [info EXCEPT !.actualValue = args.value, !.read = TRUE]
    /\ UNCHANGED <<page, envVars>>

ReadOk ==
    /\ IsConnected(session.browser)
    /\ page.target # "absent"
    /\ Advance("read", "title")
    /\ info' = [info EXCEPT !.actualValue = page.value, !.read = TRUE]
    /\ UNCHANGED <<page, envVars>>

ReadFail ==
    /\ ~(IsConnected(session.browser) /\ page.target # "absent")
    /\ Throw("read", "other")

\* click and fill between page.goto and page.title.
ElementSteps ==
    \/ \E st \in ElementStates : TargetChanges(st)
    \/ FindOk
    \/ FindFail
    \/ ElementInfoOk
    \/ ElementInfoFail
    \/ ClickOk
    \/ ClickFail
    \/ WaitForOk
    \/ WaitForFail
    \/ ClearOk
    \/ ClearFail
    \/ FillOk
    \/ FillFail
    \/ ReadOk
    \/ ReadFail

----------------------------------------------------------------------------
\* A script from its first await to its exit, the steps every script has.
CommonSteps ==
    \/ RunMain
    \/ AcquireDone
    \/ AcquireThrew
    \/ GotoOk
    \/ GotoFail
    \/ TitleOk
    \/ TitleFail
    \/ ReleaseDone
    \/ ReleaseThrew
    \/ Running /\ RegistrySteps(Main) /\ UNCHANGED <<cliVars, monVars, domVars, envVars>>
    \/ \E e \in Engines : Running /\ Disconnect(e) /\ UNCHANGED <<cliVars, monVars, domVars, envVars>>

\* A monitor script from its first await to its exit: it navigates, waits
\* for its window to expire and has no step that acts on the page.
MonitorSteps ==
    \/ CommonSteps
    \/ WaitDone
    \/ WriteOk
    \/ WriteFail

\* Any script from its first await to its exit.
ScriptSteps ==
    \/ MonitorSteps
    \/ ActOk
    \/ ActFail
    \/ ElementSteps

\* Invocations of the nine scripts, one after another, on pages that emit no
\* console message and no request.
Next ==
    \/ \E c \in Commands : \E a \in ArgsOf(c) : ~a.types /\ Spawn(c, a)
    \/ ScriptSteps

Spec == Init /\ [][Next]_vars

\* One run of click or of fill, on a page that changes under it.
NextAct ==
    \/ \E c \in {"click", "fill"} : \E a \in ArgsOf(c) : inv = 0 /\ Spawn(c, a)
    \/ CommonSteps
    \/ ElementSteps

SpecAct == Init /\ [][NextAct]_vars

----------------------------------------------------------------------------
(* Claims about click and fill.                                            *)

\* C17: a click is performed only on an element that was found and reported
\* visible, and when the element is present but not visible the command ends
\* with the element-not-visible error and without a click.
C17_ClickOnlyWhenVisible ==
    cmd = "click" =>
        /\ page.clicks > 0 => (info.elementInfo.got /\ info.elementInfo.visible)
        /\ (cmdpc = "exited" /\ info.error # "none" /\ page.target = "hidden"
              /\ ~info.elementInfo.visible) =>
                 (info.error = "not-visible" /\ page.clicks = 0)

\* C18: when the --wait-for selector never appears the click command logs a
\* warning and goes on: the await that times out prints no envelope and ends
\* nothing, and a run that warned and had no later failure ends with its
\* success object and exit status 0.
C18_MissingWaitForOnlyWarns ==
    /\ [][(cmd = "click" /\ cmdpc = "waitfor" /\ page.waitFor = "absent"
              /\ cmdpc' # cmdpc) =>
             (/\ cmdpc' = "title"
              /\ stderr' = Append(stderr, "warning")
              /\ stdout' = stdout
              /\ exitCode' = -1
              /\ page'.clicks = 1)]_vars
    /\ [](cmd = "click" /\ cmdpc = "exited" /\ stderr = <<"warning">> =>
             (exitCode = 0 /\ Len(stdout) = 1 /\ "success" \in stdout[1].fields))

C18_Witness ==
    /\ cmd = "click" /\ args.waitFor /\ page.waitFor = "absent"
    /\ cmdpc = "exited" /\ exitCode = 0
    /\ stderr = <<"warning">> /\ Len(stdout) = 1

C20_FillRoundTrip ==
    /\ (cmd = "fill" /\ info.read) =>
          /\ info.actualValue = page.value
          /\ page.fills[Len(page.fills)] = args.value
          /\ Len(args.value) <= page.maxLength => info.actualValue = args.value
    /\ (cmd = "fill" /\ stdout # <<>>) =>
          /\ info.read
          /\ stdout[1].action.value = args.value
          /\ stdout[1].action.actualValue = page.value
          /\ "success" \in stdout[1].fields

C20_Witness ==
    /\ cmd = "fill" /\ cmdpc = "exited" /\ exitCode = 0
    /\ stdout[1].action.value = <<"a", "b">>
    /\ stdout[1].action.actualValue = <<"a">>

----------------------------------------------------------------------------
(* Claims about the scripts.                                               *)

Printed == stdout # <<>> /\ "sessionId" \in stdout[1].fields

\* C1: a command run after a command that was run with --close false prints the
\* sessionId that command printed; a command run after a command that closed
\* its session prints a different one.
C1_SessionReusedAcrossInvocations ==
    (Printed /\ prev.ok) =>
        /\ prev.keep => stdout[1].sessionId = prev.sessionId
        /\ ~prev.keep => stdout[1].sessionId # prev.sessionId

\* C2: a run that ends in success has printed exactly one object to stdout, and
\* every object printed to stdout holds success, url, title, sessionId and
\* timestamp.
C2_SuccessEnvelopeHasCommonFields ==
    /\ exitCode = 0 => Len(stdout) = 1
    /\ \A i \in 1..Len(stdout) : Common \subseteq stdout[i].fields

\* The error objects outputError printed; a console.warn line is not one.
ErrorEnvelopes == Cardinality({i \in 1..Len(stderr) : stderr[i] = "envelope"})

\* C3: an invocation emits exactly one envelope: a success object on stdout and
\* exit status 0, or an error object on stderr and exit status 1; nothing
\* follows a success object.
C3_ExactlyOneEnvelope ==
    /\ Len(stdout) + ErrorEnvelopes <= 1
    /\ exitCode = 0 => (Len(stdout) = 1 /\ ErrorEnvelopes = 0)
    /\ exitCode = 1 => (stdout = <<>> /\ ErrorEnvelopes = 1)
    /\ (cmdpc = "exited") => exitCode \in {0, 1}

----------------------------------------------------------------------------
(* The monitors: the page's events while the listeners are attached.       *)

\* The --types value the monitors are given, already split at its commas.
RawTypes(c) == IF c = "console" THEN <<" Error">> ELSE <<"XHR ">>

\* t.trim().toLowerCase()
TrimLower(t) ==
    CASE t = " Error" -> "error"
      [] t = "XHR " -> "xhr"
      [] OTHER -> t

\* args.types.split(',') ...: the filter, or none when --types is absent.
FilterTypes(c, a) ==
    [given |-> a.types,
     types |-> {TrimLower(RawTypes(c)[i]) : i \in 1..Len(RawTypes(c))}]

\* `filterTypes && !filterTypes.includes(type)`
FilteredOut_Never(t) == FALSE

FilteredOut(t) ==
    FilterTypes(cmd, args).given /\ t \notin FilterTypes(cmd, args).types

\* The page of the session exists and the process is there to hear it.
PageLive ==
    /\ Running
    /\ listening
    /\ IsConnected(session.browser)
    /\ context[session.browser] = "open"

monFrame == <<sessVars, callVars, cliVars, domVars, envVars>>

\* Date.now() moves on while a monitor runs.
Tick ==
    /\ Running
    /\ listening
    /\ now < MaxNow
    /\ now' = now + 1
    /\ UNCHANGED <<currentSession, engine, engineKind, engineHeadless, context,
                   issued, callVars, cliVars, monVars, domVars, envVars>>

\* page.on('console'): the console monitor's listener.
ConsoleEvent(t) ==
    /\ cmd = "console"
    /\ PageLive
    /\ emitted < MaxMessages
    /\ emitted' = emitted + 1
    /\ messages' = IF FilteredOut(t) THEN messages
                   ELSE Append(messages,
                               [type |-> t, timestamp |-> now, seq |-> emitted + 1])
    /\ UNCHANGED <<listening, net, requestData, bodyRead, requests, unhandled,
                   summary, result>>
    /\ UNCHANGED monFrame

\* page.on('request'): the page sends its next request, of resource type t.
RequestEvent(r, t) ==
    /\ cmd = "network"
    /\ PageLive
    /\ net[r].state = "none"
    /\ \A q \in Requests : q < r => net[q].state # "none"
    /\ net' = [net EXCEPT ![r] = [state |-> "sent", resourceType |-> t, status |-> 0]]
    /\ requestData' = IF FilteredOut(t) THEN requestData
                      ELSE [requestData EXCEPT
                              ![r] = [resourceType |-> t, startTime |-> now]]
    /\ UNCHANGED <<listening, bodyRead, requests, messages, emitted, unhandled,
                   summary, result>>
    /\ UNCHANGED monFrame

\* page.on('response'), up to `await response.text()`.
ResponseEvent_NoEndTime(r, st) ==
    /\ cmd = "network"
    /\ PageLive
    /\ net[r].state = "sent"
    /\ net' = [net EXCEPT ![r].state = "responded", ![r].status = st]
    /\ emitted' = emitted + 1
    /\ bodyRead' = IF requestData[r] = NoData \/ FilteredOut(net[r].resourceType)
                      THEN bodyRead
                      ELSE [bodyRead EXCEPT
                              ![r] = [endTime |-> 0, seq |-> emitted + 1]]
    /\ UNCHANGED <<listening, requestData, requests, messages, unhandled,
                   summary, result>>
    /\ UNCHANGED monFrame

ResponseEvent(r, st) ==
    /\ cmd = "network"
    /\ PageLive
    /\ net[r].state = "sent"
    /\ net' = [net EXCEPT ![r].state = "responded", ![r].status = st]
    /\ emitted' = emitted + 1
    /\ bodyRead' = IF requestData[r] = NoData \/ FilteredOut(net[r].resourceType)
                      THEN bodyRead
                      ELSE [bodyRead EXCEPT
                              ![r] = [endTime |-> now, seq |-> emitted + 1]]
    /\ UNCHANGED <<listening, requestData, requests, messages, unhandled,
                   summary, result>>
    /\ UNCHANGED monFrame

\* `await response.text()` resolves with a body of n characters: the record
\* is pushed.
BodyOk(r, n) ==
    /\ Running
    /\ bodyRead[r] # NoRead
    /\ requests' = Append(requests,
          [req |-> r, type |-> "response", resourceType |-> net[r].resourceType,
           status |-> net[r].status, failed |-> net[r].status \notin 200..299,
           size |-> n,
           startTime |-> requestData[r].startTime,
           endTime |-> bodyRead[r].endTime,
           duration |-> bodyRead[r].endTime - requestData[r].startTime,
           seq |-> bodyRead[r].seq])
    /\ bodyRead' = [bodyRead EXCEPT ![r] = NoRead]
    /\ UNCHANGED <<listening, net, requestData, messages, emitted, unhandled,
                   summary, result>>
    /\ UNCHANGED monFrame

\* `await response.text()` rejects. The listener is an async function nobody
\* awaits: the rejection is unhandled, and Node (18 or later) ends the
\* process with status 1 after printing the error as text.
BodyFail(r) ==
    /\ Running
    /\ bodyRead[r] # NoRead
    /\ bodyRead' = [bodyRead EXCEPT ![r] = NoRead]
    /\ net' = [net EXCEPT ![r].state = "unreadable"]
    /\ unhandled' = unhandled + 1
    /\ stderr' = Append(stderr, "raw")
    /\ exitCode' = 1
    /\ cmdpc' = "exited"
    /\ UNCHANGED <<cmd, args, session, stdout, inv, prev>>
    /\ UNCHANGED <<listening, requestData, requests, messages, emitted,
                   summary, result>>
    /\ UNCHANGED <<sessVars, callVars, domVars, envVars>>

\* page.on('requestfailed'): the record is pushed at once.
RequestFailedEvent(r) ==
    /\ cmd = "network"
    /\ PageLive
    /\ net[r].state \in {"sent", "responded"}
    /\ net' = [net EXCEPT ![r].state = "failed"]
    /\ emitted' = emitted + 1
    /\ requests' = IF requestData[r] = NoData \/ FilteredOut(net[r].resourceType)
                      THEN requests
                      ELSE Append(requests,
          [req |-> r, type |-> "failed", resourceType |-> net[r].resourceType,
           status |-> 0, failed |-> TRUE,
           size |-> 0,
           startTime |-> requestData[r].startTime,
           endTime |-> now,
           duration |-> now - requestData[r].startTime,
           seq |-> emitted + 1])
    /\ UNCHANGED <<listening, requestData, bodyRead, messages, unhandled,
                   summary, result>>
    /\ UNCHANGED monFrame

\* What a page does while it is monitored, its requests being of the resource
\* types rtypes and its responses carrying the statuses sts.
NetworkEvents(rtypes, sts) ==
    \/ \E r \in Requests : \E t \in rtypes : RequestEvent(r, t)
    \/ \E r \in Requests : \E st \in sts : ResponseEvent(r, st)
    \/ \E r \in Requests : \E n \in BodySizes : BodyOk(r, n)
    \/ \E r \in Requests : BodyFail(r)
    \/ \E r \in Requests : RequestFailedEvent(r)

PageEvents(rtypes, sts) ==
    \/ \E t \in ConsoleTypes : ConsoleEvent(t)
    \/ NetworkEvents(rtypes, sts)

\* One run of a monitor script, without --types, on a page whose requests
\* are XHRs answered with 200 or failing.
NextMon ==
    \/ \E c \in Monitors : \E a \in ArgsOf(c) : inv = 0 /\ ~a.types /\ Spawn(c, a)
    \/ MonitorSteps
    \/ PageEvents({"xhr"}, {200})

SpecMon == Init /\ [][NextMon]_vars

\* One run of a monitor script that closes its session and prints its
\* result, with or without --types, on a page whose requests are XHRs and
\* images.
NextFilter ==
    \/ \E c \in Monitors : \E a \in ArgsOf(c) :
          inv = 0 /\ a.close = "absent" /\ ~a.output /\ Spawn(c, a)
    \/ CommonSteps
    \/ WaitDone
    \/ PageEvents(ResourceTypes, {200})

SpecFilter == Init /\ [][NextFilter]_vars

\* One run of the network monitor that closes its session and prints its
\* result, without --types, while the clock runs.
NextTime ==
    \/ \E a \in ArgsOf("network") :
          /\ inv = 0 /\ ~a.types /\ a.close = "absent" /\ ~a.output
          /\ Spawn("network", a)
    \/ CommonSteps
    \/ WaitDone
    \/ NetworkEvents({"xhr"}, {200})
    \/ Tick

SpecTime == Init /\ [][NextTime]_vars

\* One run of the network monitor that closes its session and prints its
\* result, without --types, on a page whose XHRs are answered with 200 or
\* with 404, or fail.
NextStatus ==
    \/ \E a \in ArgsOf("network") :
          /\ inv = 0 /\ ~a.types /\ a.close = "absent" /\ ~a.output
          /\ Spawn("network", a)
    \/ CommonSteps
    \/ WaitDone
    \/ NetworkEvents({"xhr"}, Statuses)

SpecStatus == Init /\ [][NextStatus]_vars

\* One run of a monitor script with a window of any duration, on a page that
\* logs to the console, while the clock runs.
NextWindow ==
    \/ \E c \in Monitors : \E a \in WindowArgs(c) :
          /\ inv = 0 /\ ~a.types /\ a.close = "absent" /\ ~a.output
          /\ Spawn(c, a)
    \/ CommonSteps
    \/ WaitDone
    \/ \E t \in ConsoleTypes : ConsoleEvent(t)
    \/ Tick

SpecWindow == Init /\ [][NextWindow]_vars

----------------------------------------------------------------------------
(* Claims about the monitors.                                              *)

\* C4: every failure during a command is caught: nothing is left as an
\* unhandled rejection, whatever reaches stderr is an error envelope, and a
\* process that ends with status 1 has printed exactly one.
C4_EveryFailureIsCaught ==
    /\ unhandled = 0
    /\ \A i \in 1..Len(stderr) : stderr[i] # "raw"
    /\ exitCode = 1 => ErrorEnvelopes = 1

\* The records a request has in the `requests` array.
RecordsOf(r) == {i \in 1..Len(requests) : requests[i].req = r}

\* C11: when the body of a response cannot be read, the monitor goes on and
\* the request still gets its record, with size 0: nothing is left unhandled
\* and nothing but an envelope reaches stderr.
C11_UnreadableBodyStillRecorded ==
    \A r \in Requests :
        net[r].state = "unreadable" =>
            /\ \E i \in RecordsOf(r) : requests[i].size = 0
            /\ unhandled = 0
            /\ "raw" \notin {stderr[i] : i \in 1..Len(stderr)}

\* C12: a request has at most one record in the network result, whatever
\* response and requestfailed events the engine emits for it.
C12_OneRecordPerRequest ==
    /\ \A r \in Requests : Cardinality(RecordsOf(r)) <= 1
    /\ (cmd = "network" /\ result.made) =>
          \A r \in Requests :
              Cardinality({i \in 1..Len(result.records) :
                             result.records[i].req = r}) <= 1

\* The tracked requests that have neither a response nor a failure yet.
Pending ==
    {r \in Requests : net[r].state = "sent" /\ requestData[r] # NoData}

Resolved(r) == net[r].state \in {"responded", "failed", "unreadable"}

\* Every record of seq belongs to a request whose start was observed and
\* passed the filter, and that has had its response or its failure.
OnlyResolved(seq) ==
    \A i \in 1..Len(seq) :
        /\ Resolved(seq[i].req)
        /\ requestData[seq[i].req] # NoData
        /\ args.types => net[seq[i].req].resourceType \in FilterTypes(cmd, args).types

\* C13: a request that has started and has had neither a response nor a
\* failure has no record, and every record belongs to a request whose start
\* was observed, and passed the type filter, in this run.
C13_PendingRequestsAreDropped ==
    cmd = "network" =>
        /\ OnlyResolved(requests)
        /\ result.made => OnlyResolved(result.records)
        /\ \A r \in Requests : net[r].state = "sent" => RecordsOf(r) = {}

C13_Witness ==
    /\ cmd = "network" /\ cmdpc = "exited" /\ exitCode = 0
    /\ Pending # {}
    /\ Len(result.records) = 1

\* Every type of seq, read with field, is in the filter given.
AllIn(seq, field) ==
    \A i \in 1..Len(seq) : seq[i][field] \in FilterTypes(cmd, args).types

\* C14: with --types every console record has its type in the filter and
\* every network record its resourceType; without --types every console
\* event has its record and every request is tracked.
C14_RecordsMatchFilter ==
    /\ (cmd = "console" /\ args.types) =>
          /\ AllIn(messages, "type")
          /\ result.made => AllIn(result.records, "type")
    /\ (cmd = "network" /\ args.types) =>
          /\ AllIn(requests, "resourceType")
          /\ result.made => AllIn(result.records, "resourceType")
          /\ \A r \in Requests :
                requestData[r] # NoData =>
                    requestData[r].resourceType \in FilterTypes(cmd, args).types
    /\ (cmd = "console" /\ ~args.types) => Len(messages) = emitted
    /\ (cmd = "network" /\ ~args.types) =>
          \A r \in Requests :
              /\ net[r].state # "none" => requestData[r] # NoData
              /\ net[r].state = "failed" => RecordsOf(r) # {}

C14_Witness ==
    /\ cmd = "network" /\ args.types /\ cmdpc = "exited" /\ exitCode = 0
    /\ \E r \in Requests : net[r].resourceType = "image" /\ Resolved(r)
    /\ Len(result.records) = 1
    /\ result.records[1].resourceType = "xhr"

\* C15: every network record has duration = endTime - startTime, not
\* negative, with the startTime its request was given when it started.
C15_DurationIsEndMinusStart ==
    \A i \in 1..Len(requests) :
        /\ requests[i].duration = requests[i].endTime - requests[i].startTime
        /\ requests[i].duration >= 0
        /\ requests[i].startTime = requestData[requests[i].req].startTime
        /\ requests[i].endTime <= now

C15_Witness ==
    /\ cmdpc = "exited" /\ exitCode = 0
    /\ Len(result.records) = 2
    /\ result.records[1].type = "response" /\ result.records[1].duration > 0
    /\ result.records[2].type = "failed" /\ result.records[2].duration > 0

\* C16: the console monitor started without --url while no connected session
\* exists ends with the error envelope and status 1 in its first step: no
\* acquire is started, no engine launched, no listener attached.
C16_ConsoleFailsFastWithoutSession ==
    [][(/\ cmd = "console" /\ cmdpc = "main" /\ ~args.url
        /\ GetExistingSession = NoSession
        /\ cmdpc' # cmdpc) =>
           (/\ cmdpc' = "exited" /\ exitCode' = 1
            /\ stderr' = <<"envelope">> /\ stdout' = <<>>
            /\ op'[Main] = "none"
            /\ engine' = engine /\ Launched = {}
            /\ ~listening')]_vars

C16_Witness ==
    /\ cmd = "console" /\ ~args.url
    /\ cmdpc = "exited" /\ exitCode = 1 /\ stderr = <<"envelope">>
    /\ Launched = {} /\ ~listening

\* C10: the records of a monitor's result are in the order in which the
\* engine emitted their events.
InEmissionOrder(seq) ==
    \A i \in 1..Len(seq) : \A j \in 1..Len(seq) : i < j => seq[i].seq < seq[j].seq

C10_RecordsInEmissionOrder ==
    /\ InEmissionOrder(messages)
    /\ InEmissionOrder(requests)
    /\ result.made => InEmissionOrder(result.records)

----------------------------------------------------------------------------
(* Claims about the files screenshot and snapshot leave.                   *)

\* C21: every screenshot or snapshot that printed its result has written a
\* file at the path the result reports, whether the capture is of the full
\* page, of the viewport or of one element, and whether the path is the
\* --output given or the default one.
C21_ReportedFileIsWritten ==
    (cmd \in {"screenshot", "snapshot"} /\ stdout # <<>>) =>
        stdout[1].capture.outputPath \in written

\* C22: a screenshot is of the full page, of the viewport or of one element:
\* no screenshot call is made with fullPage true on an element, and no
\* result reports fullPage true together with a selector.
C22_ElementCaptureExcludesFullPage ==
    /\ ~(info.shot.of = "element" /\ info.shot.fullPage)
    /\ \A i \in 1..Len(stdout) :
          ~(stdout[i].capture.fullPage /\ stdout[i].capture.selector)

----------------------------------------------------------------------------
(* snapshot and getElementInfo: the element tree they read.                *)

\* The documents a page can hold: any tree of MaxNodes nodes below body,
\* numbered in document order, laid out with every box sized and visible.
RECURSIVE AncestorsOrSelf(_, _)
AncestorsOrSelf(parent, n) ==
    IF n = Body THEN {Body} ELSE {n} \cup AncestorsOrSelf(parent, parent[n])

InDocumentOrder(parent) ==
    /\ parent[1] = Body
    /\ \A n \in Nodes \ {1} : parent[n] \in AncestorsOrSelf(parent, n - 1)

Doms ==
    {d \in [loaded : {TRUE}, layouts : {0},
            parent : [Nodes -> {Body} \cup Nodes],
            tag : [Nodes -> DomTags],
            id : [Nodes -> Ids],
            class : [Nodes -> ClassAttrs],
            box : {[n \in Nodes |-> Sized]},
            visibility : {[n \in Nodes |-> "visible"]}] :
        InDocumentOrder(d.parent)}

\* The nodes `interactiveSelectors.join(', ')` matches: the buttons.
Interactive(d) == {n \in Nodes : d.tag[n] = "BUTTON"}

\* document.querySelectorAll(selector): the matching nodes from node n on, in
\* document order.
RECURSIVE NodesFrom(_, _)
NodesFrom(d, n) ==
    IF n > MaxNodes
       THEN <<>>
       ELSE (IF n \in Interactive(d) THEN <<n>> ELSE <<>>) \o NodesFrom(d, n + 1)

Reverse(seq) == [i \in 1..Len(seq) |-> seq[Len(seq) + 1 - i]]

QuerySelectorAll_Reversed(d) == Reverse(NodesFrom(d, 1))

QuerySelectorAll(d) == NodesFrom(d, 1)

\* element.classList: the tokens of the class attribute; a class attribute of
\* white space alone has none.
ClassList(attr) == IF attr = "c d" THEN <<"c", "d">> ELSE <<>>

\* Array.prototype.join('.'), a string being the sequence of its parts.
RECURSIVE JoinDots(_)
JoinDots(list) ==
    CASE Len(list) = 0 -> <<>>
      [] Len(list) = 1 -> list
      [] OTHER -> <<Head(list), ".">> \o JoinDots(Tail(list))

\* uniqueSelector of element n: `#id`, else tag.classes when className is a
\* non-empty string, else the tag.
UniqueSelector(d, n) ==
    IF d.id[n] # ""
       THEN <<"#", d.id[n]>>
       ELSE IF d.class[n] # ""
               THEN <<ToLowerCase(d.tag[n]), ".">> \o JoinDots(ClassList(d.class[n]))
               ELSE <<ToLowerCase(d.tag[n])>>

\* ix of getXPath: the siblings before element n that have its tagName.
SameTagBefore(d, n) ==
    Cardinality({m \in Nodes : /\ m < n
                               /\ d.parent[m] = d.parent[n]
                               /\ d.tag[m] = d.tag[n]})

\* getXPath(element)
RECURSIVE GetXPath(_, _)
GetXPath(d, n) ==
    IF n = Body
       THEN <<"/html/body">>
       ELSE IF d.id[n] # ""
               THEN <<"//*[@id=", d.id[n], "]">>
               ELSE GetXPath(d, d.parent[n])
                       \o <<"/", ToLowerCase(d.tag[n]), SameTagBefore(d, n) + 1>>

\* el.getBoundingClientRect() and element.boundingBox()
BoundingBox(d, n) == d.box[n]

\* `rect.width > 0 && rect.height > 0`
HasSize(rect) == rect.width > 0 /\ rect.height > 0

\* element.isVisible(): a non-empty bounding box and no visibility:hidden.
IsVisible(d, n) == HasSize(BoundingBox(d, n)) /\ d.visibility[n] = "visible"

\* The ElementInfo pushed for the index-th node of the NodeList.
ElementOf(d, nodes, index) ==
    LET n == nodes[index + 1]
    IN  [index |-> index,
         selector |-> UniqueSelector(d, n),
         xpath |-> GetXPath(d, n),
         visible |-> HasSize(BoundingBox(d, n)),
         position |-> BoundingBox(d, n)]

\* The `elements` the page.evaluate of takeSnapshot returns.
Elements(d) ==
    LET nodes == QuerySelectorAll(d)
    IN  [i \in 1..Len(nodes) |-> ElementOf(d, nodes, i - 1)]

snapFrame == <<sessVars, callVars, cliVars, monVars, domVars, written, window, libVars>>

\* page.goto loads a document.
LoadDocument(d) ==
    /\ ~dom.loaded
    /\ dom' = d
    /\ UNCHANGED <<snapFrame, snapshots, descriptor>>

\* The page is laid out again: the box and the visibility of node n change,
\* the element tree does not.
Relayout(n, b, v) ==
    /\ dom.loaded
    /\ dom.layouts < MaxLayouts
    /\ dom' = [dom EXCEPT !.layouts = @ + 1, !.box[n] = b, !.visibility[n] = v]
    /\ UNCHANGED <<snapFrame, snapshots, descriptor>>

\* The page.evaluate of one snapshot run.
Evaluate ==
    /\ dom.loaded
    /\ Len(snapshots) < MaxSnapshots
    /\ snapshots' = Append(snapshots, Elements(dom))
    /\ UNCHANGED <<snapFrame, dom, descriptor>>

\* getElementInfo(page, selector), the selector matching node n.
GetElementInfo(n) ==
    /\ dom.loaded
    /\ descriptor' = [got |-> TRUE, node |-> n,
                      visible |-> IsVisible(dom, n),
                      position |-> BoundingBox(dom, n)]
    /\ UNCHANGED <<snapFrame, dom, snapshots>>

\* Snapshots and getElementInfo calls on one document.
NextSnap ==
    \/ \E d \in Doms : LoadDocument(d)
    \/ \E n \in Nodes : \E b \in Boxes : \E v \in Visibilities : Relayout(n, b, v)
    \/ Evaluate
    \/ \E n \in Nodes : GetElementInfo(n)

SpecSnap == Init /\ [][NextSnap]_vars

----------------------------------------------------------------------------
(* Claims about snapshot and getElementInfo.                               *)

\* The (selector, xpath) pairs of a snapshot, in its order.
Pairs(els) == [i \in 1..Len(els) |-> <<els[i].selector, els[i].xpath>>]

\* The i-th interactive node of the document, in document order.
Nth(d, i) ==
    CHOOSE n \in Interactive(d) :
        Cardinality({m \in Interactive(d) : m < n}) = i - 1

\* C23: two snapshots of a document whose element tree did not change carry
\* the same (selector, xpath) pairs in the same order, and that order is
\* document order: the i-th pair is the one of the i-th interactive node.
C23_SnapshotsAgree ==
    \A j \in 1..Len(snapshots) :
        /\ \A k \in 1..Len(snapshots) : Pairs(snapshots[j]) = Pairs(snapshots[k])
        /\ Len(snapshots[j]) = Cardinality(Interactive(dom))
        /\ \A i \in 1..Len(snapshots[j]) :
              Pairs(snapshots[j])[i] =
                  <<UniqueSelector(dom, Nth(dom, i)), GetXPath(dom, Nth(dom, i))>>

C23_Witness ==
    /\ Len(snapshots) = 2
    /\ Len(snapshots[1]) = 2
    /\ Pairs(snapshots[1])[1] # Pairs(snapshots[1])[2]
    /\ snapshots[1] # snapshots[2]
    /\ dom.parent[2] = 1

\* C24: of every element of a snapshot the selector is #id when the element
\* has an id, else tag.class1.class2 when it has classes, else the tag; and
\* the xpath is the id anchor when it has an id, else the xpath of its parent
\* followed by /tag[k], k its position among the siblings of its tag, the
\* chain starting at an id anchor or at /html/body.
C24_SelectorAndPathByRule ==
    \A j \in 1..Len(snapshots) : \A i \in 1..Len(snapshots[j]) :
        LET n == Nth(dom, i)
            e == snapshots[j][i]
            tag == ToLowerCase(dom.tag[n])
            classes == ClassList(dom.class[n])
        IN  /\ e.selector =
                  IF dom.id[n] # "" THEN <<"#", dom.id[n]>>
                  ELSE IF classes # <<>> THEN <<tag, ".">> \o JoinDots(classes)
                  ELSE <<tag>>
            /\ e.xpath =
                  IF dom.id[n] # "" THEN <<"//*[@id=", dom.id[n], "]">>
                  ELSE GetXPath(dom, dom.parent[n])
                          \o <<"/", tag, SameTagBefore(dom, n) + 1>>
            /\ e.xpath[1] \in {"/html/body", "//*[@id="}

\* C25: every element descriptor, of a snapshot or returned by
\* getElementInfo, has visible true exactly when its position has a width
\* and a height above zero.
C25_VisibleIffSized ==
    /\ \A j \in 1..Len(snapshots) : \A i \in 1..Len(snapshots[j]) :
          snapshots[j][i].visible <=>
              (snapshots[j][i].position.width > 0 /\ snapshots[j][i].position.height > 0)
    /\ descriptor.got =>
          (descriptor.visible <=>
              (descriptor.position.width > 0 /\ descriptor.position.height > 0))

\* C26: while the page answers, waitForElement resolves when a node matching
\* the selector is in the document and rejects with the element-not-found
\* error when none is; getElementInfo on a selector that matches nothing
\* rejects with the element-not-found error, not with another one.
C26_WaitFailsOnlyWithoutMatch ==
    [][/\ (cmdpc = "find" /\ cmdpc' # "find" /\ IsConnected(session.browser)) =>
             /\ page.target # "absent" => cmdpc' = "info"
             /\ page.target = "absent" =>
                   (cmdpc' = "exited" /\ info'.error = "not-found")
       /\ (cmdpc = "info" /\ cmdpc' = "exited" /\ IsConnected(session.browser)
              /\ page.target = "absent") =>
             info'.error = "not-found"]_vars

----------------------------------------------------------------------------
(* Claims about the end of a command.                                      *)

\* C27: a command that ended with status 0 has released its session, the
\* context and the engine closed and the slot cleared, unless --close false
\* was given; then it has not called release and the slot still holds the
\* session it used.
C27_ReleasedUnlessKeepOpen ==
    (cmdpc = "exited" /\ exitCode = 0) =>
        IF args.close = "false"
           THEN /\ currentSession = session
                /\ op[Main] # "release"
                /\ engine[session.browser] # "closed"
                /\ context[session.browser] = "open"
           ELSE /\ currentSession = NoSession
                /\ engine[session.browser] = "closed"
                /\ context[session.browser] = "closed"

C27_Witness ==
    /\ cmdpc = "exited" /\ exitCode = 0
    /\ args.close = "absent"
    /\ currentSession = NoSession
    /\ engine[session.browser] = "closed"
    /\ prev.keep

----------------------------------------------------------------------------
(* Claims about the monitoring window.                                     *)

\* How long after its --duration the setTimeout of the window fired.
Lateness == window.expiredAt - (window.waitFrom + args.duration)

\* C28: from the attachment of the listeners to the end of the capture a
\* monitor run takes its --duration, give or take the lateness of the timer,
\* however long navigation took, and no message is recorded with a timestamp
\* outside that interval.
C28_WindowIsDuration ==
    (cmd \in Monitors /\ window.expiredAt >= 0) =>
        /\ window.expiredAt - window.attachedAt - Lateness = args.duration
        /\ \A i \in 1..Len(messages) :
              messages[i].timestamp - window.attachedAt <= args.duration + Lateness

\* C29: a monitor run goes from idle to listeners attached, navigation, the
\* capture of --duration, the summary and the end, in that order: it
\* navigates only with its listeners attached, has no summary before the
\* capture wait expired and no result before the summary, and its listeners
\* are still attached when it ends.
C29_MonitorStepsInOrder ==
    cmd \in Monitors =>
        /\ cmdpc \in {"main", "acquire"} =>
              (~listening /\ window = NoWindow /\ summary = NoSummary)
        /\ cmdpc = "goto" =>
              (listening /\ window.attachedAt >= 0 /\ window.waitFrom < 0)
        /\ cmdpc = "wait" =>
              (listening /\ window.waitFrom >= window.attachedAt
                 /\ window.expiredAt < 0 /\ summary = NoSummary)
        /\ summary # NoSummary =>
              /\ cmdpc \in {"title", "write", "release", "exited"}
              /\ window.expiredAt >= window.waitFrom + args.duration
        /\ result.made => summary # NoSummary
        /\ stdout # <<>> => result.made
        /\ (cmdpc \in {"release", "exited"} /\ session # NoSession) => listening

C29_Witness ==
    /\ cmd = "console"
    /\ cmdpc = "exited" /\ exitCode = 0
    /\ listening
    /\ args.duration = 1
    /\ window.waitFrom < window.expiredAt
    /\ Len(result.records) = 2
    /\ result.records[1].timestamp < result.records[2].timestamp

----------------------------------------------------------------------------
(* Claims about the network summary.                                       *)

\* The sum of f over the finite set S of its arguments.
RECURSIVE SumOver(_, _)
SumOver(f, S) ==
    IF S = {} THEN 0
    ELSE LET x == CHOOSE y \in S : TRUE IN f[x] + SumOver(f, S \ {x})

\* The records of the summary's requests that hold a response, and those of
\* requests that failed before one.
Answered(recs) == {i \in 1..Len(recs) : recs[i].type = "response"}
Unanswered(recs) == {i \in 1..Len(recs) : recs[i].type = "failed"}

\* C30: in the summary of a network run the total is the successful plus the
\* failed requests, the counts by type and the counts by status each add up
\* to the total, each status group counts the records with a response of
\* that group and 'failed' the requests that failed before a response, and
\* the average response time is 0 when nothing was recorded.
C30_SummaryCountsAddUp ==
    [][(cmd = "network" /\ cmdpc = "wait" /\ cmdpc' = "title") =>
          LET recs == requests
              sum == summary'
          IN  /\ sum.total = Len(recs)
              /\ sum.total = sum.successful + sum.failed
              /\ SumOver(sum.byType, ResourceTypes) = sum.total
              /\ sum.byStatus.failed + SumOver(sum.byStatus.groups, StatusGroups)
                    = sum.total
              /\ \A g \in StatusGroups :
                    sum.byStatus.groups[g] =
                        Cardinality({i \in Answered(recs) :
                                        StatusGroup(recs[i].status) = g})
              /\ sum.byStatus.failed = Cardinality(Unanswered(recs))
              /\ sum.total = 0 => sum.averageResponseTime = <<0, 1>>]_vars

----------------------------------------------------------------------------
(* getOutputDirectory and parseArgs.                                       *)

\* The file systems a process can be started in.
FileSystems ==
    {f \in [started : {TRUE}, env : EnvDirs,
            cwd : UNION {[1..n -> DirNames] : n \in Depths},
            markers : [Depths -> Markers]] :
        \A d \in Depths : d > Len(f.cwd) => f.markers[d] = "none"}

\* The ancestor of the working directory d names below the root.
DirAt(f, d) == SubSeq(f.cwd, 1, d)

\* currentDir.includes('node_modules')
IncludesNodeModules(dir) == \E i \in 1..Len(dir) : dir[i] = "node_modules"

\* The first loop, currentDir being d names below the root: it ends at the
\* root without looking into it, and join(currentDir, '..') is one name less.
RECURSIVE FirstPass(_, _)
FirstPass(f, d) ==
    IF d = 0 THEN NoDir
    ELSE IF f.markers[d] = "priority" THEN DirAt(f, d)
    ELSE FirstPass(f, d - 1)

\* The second loop.
RECURSIVE SecondPass(_, _)
SecondPass(f, d) ==
    IF d = 0 THEN NoDir
    ELSE IF f.markers[d] = "secondary" /\ ~IncludesNodeModules(DirAt(f, d))
            THEN DirAt(f, d)
    ELSE SecondPass(f, d - 1)

\* getOutputDirectory()
OutputDirectoryOf(f) ==
    IF f.env # <<"unset">> /\ f.env # <<>>
       THEN f.env
       ELSE IF FirstPass(f, Len(f.cwd)) # NoDir
               THEN FirstPass(f, Len(f.cwd))
               ELSE IF SecondPass(f, Len(f.cwd)) # NoDir
                       THEN SecondPass(f, Len(f.cwd))
                       ELSE f.cwd

libFrame == <<sessVars, callVars, cliVars, monVars, domVars, written, window,
              dom, snapshots, descriptor>>

\* A process is started in file system f.
Chdir(f) ==
    /\ ~fs.started
    /\ fs' = f
    /\ UNCHANGED <<libFrame, outputDir, argv, parsed>>

\* The process calls getOutputDirectory().
GetOutputDirectory ==
    /\ fs.started
    /\ outputDir' = OutputDirectoryOf(fs)
    /\ UNCHANGED <<libFrame, fs, argv, parsed>>

NextDir ==
    \/ \E f \in FileSystems : Chdir(f)
    \/ GetOutputDirectory

SpecDir == Init /\ [][NextDir]_vars

\* The deepest of the directories at the depths D.
Nearest(D) == DirAt(fs, CHOOSE d \in D : \A e \in D : e <= d)

\* C31: getOutputDirectory returns CLAUDE_PROJECT_DIR when it is set; else
\* the nearest directory, from the working directory up to the root, that
\* holds a priority marker; else the nearest one that holds a secondary
\* marker and has no node_modules in its path; else the working directory.
C31_OutputDirectoryByRule ==
    outputDir # NoDir =>
        LET up == 0..Len(fs.cwd)
            priority == {d \in up : fs.markers[d] = "priority"}
            secondary == {d \in up : /\ fs.markers[d] = "secondary"
                                      /\ ~IncludesNodeModules(DirAt(fs, d))}
        IN  outputDir =
                IF fs.env # <<"unset">> /\ fs.env # <<>> THEN fs.env
                ELSE IF priority # {} THEN Nearest(priority)
                ELSE IF secondary # {} THEN Nearest(secondary)
                ELSE fs.cwd

\* The tokens of an argv: two --keys, the value "true" and the empty string.
Tokens == {"--clear", "--value", "true", ""}
Keys == {"clear", "value"}
Argvs == UNION {[1..n -> Tokens] : n \in 0..MaxArgs}

\* arg.startsWith("--")
StartsWithDashes(t) == t \in {"--clear", "--value"}

\* arg.slice(2)
Slice2(t) == IF t = "--clear" THEN "clear" ELSE "value"

\* The values of an args object: undefined, the boolean true, a string.
Undefined == <<"undefined">>
True == <<"boolean", "true">>
String(t) == <<"string", t>>

\* The loop of parseArgs from argv[i - 1] on, args being what it has set.
RECURSIVE ParseFrom(_, _, _)
ParseFrom(v, i, a) ==
    IF i > Len(v) THEN a
    ELSE IF StartsWithDashes(v[i])
       THEN IF i + 1 <= Len(v) /\ v[i + 1] # "" /\ ~StartsWithDashes(v[i + 1])
               THEN ParseFrom(v, i + 2, [a EXCEPT ![Slice2(v[i])] = String(v[i + 1])])
               ELSE ParseFrom(v, i + 1, [a EXCEPT ![Slice2(v[i])] = True])
       ELSE ParseFrom(v, i + 1, a)

\* parseArgs(argv)
ParseArgsOf(v) == ParseFrom(v, 1, [k \in Keys |-> Undefined])

\* `args.clear === 'true'`, and the same test of --full-page, --resources
\* and --no-navigation.
IsTrue(value) == value = String("true")

\* A process is started with the arguments v.
Exec(v) ==
    /\ argv = NoArgv
    /\ argv' = v
    /\ UNCHANGED <<libFrame, fs, outputDir, parsed>>

\* The script calls parseArgs(process.argv.slice(2)).
ParseArgs ==
    /\ argv # NoArgv
    /\ parsed' = [made |-> TRUE, args |-> ParseArgsOf(argv)]
    /\ UNCHANGED <<libFrame, fs, outputDir, argv>>

NextArgs ==
    \/ \E v \in Argvs : Exec(v)
    \/ ParseArgs

SpecArgs == Init /\ [][NextArgs]_vars

\* The last place of argv that holds the --key of k, 0 if none does.
LastOf(k) ==
    IF \E i \in 1..Len(argv) : StartsWithDashes(argv[i]) /\ Slice2(argv[i]) = k
       THEN CHOOSE i \in 1..Len(argv) :
               /\ StartsWithDashes(argv[i]) /\ Slice2(argv[i]) = k
               /\ \A j \in 1..Len(argv) :
                     (StartsWithDashes(argv[j]) /\ Slice2(argv[j]) = k) => j <= i
       ELSE 0

\* C32: parseArgs gives every key the value of its last --key token: the
\* token after it when that one does not start with --, true otherwise; a
\* key no token names is absent; every argv has a result.
C32_ParseArgsByRule ==
    parsed.made =>
        \A k \in Keys :
            parsed.args[k] =
                IF LastOf(k) = 0 THEN Undefined
                ELSE IF LastOf(k) < Len(argv)
                        /\ ~StartsWithDashes(argv[LastOf(k) + 1])
                        THEN String(argv[LastOf(k) + 1])
                        ELSE True

\* C36: a toggle given as a bare flag, its last --key followed by no value,
\* is on, as it is when given with the value true.
C36_BareFlagIsTrue ==
    (parsed.made /\ LastOf("clear") # 0) =>
        ((LastOf("clear") = Len(argv) \/ StartsWithDashes(argv[LastOf("clear") + 1]))
            => IsTrue(parsed.args["clear"]) = IsTrue(ParseArgsOf(<<"--clear", "true">>)["clear"]))

----------------------------------------------------------------------------
(* Claims about a monitor's result and its end.                            *)

\* C33: in the result a monitor emits, the summary agrees with the records
\* of the same result, whatever arrived while page.title() was awaited: for
\* console, messageCount is the number of messages and the sum of
\* messageCountByType; for network, totalRequests is the number of requests.
C33_SummaryAgreesWithRecords ==
    (cmd \in Monitors /\ result.made) =>
        /\ result.summary.total = Len(result.records)
        /\ cmd = "console" =>
              SumOver(result.summary.byType, ConsoleTypes) = Len(result.records)

----------------------------------------------------------------------------
(* Overlapping calls of getBrowserSession.                                 *)

\* The awaits of getBrowserSession settling.
AcquireSteps(c) ==
    \/ LaunchOk(c)
    \/ LaunchFail(c)
    \/ ContextOk(c)
    \/ ContextFail(c)
    \/ PageOk(c)
    \/ PageFail(c)

\* Each caller calls getBrowserSession once, whether or not the call of the
\* other is suspended; no engine disconnects and nothing is released.
NextOverlap ==
    \/ \E c \in Callers : \E o \in BrowserOptions :
          /\ op[c] = "none"
          /\ CallAcquire(c, o)
          /\ UNCHANGED <<cliVars, monVars, domVars, envVars>>
    \/ \E c \in Callers :
          AcquireSteps(c) /\ UNCHANGED <<cliVars, monVars, domVars, envVars>>

SpecOverlap == Init /\ [][NextOverlap]_vars

\* C34: when the acquire() calls of both callers have returned, one of them
\* having started while the other was suspended or after it, one engine has
\* been launched and both hold the same session; and once no call is in
\* flight every engine alive is the one of the registered session.
C34_OverlappingAcquiresShare ==
    /\ (\A c \in Callers : Finished(c, "acquire") /\ pc[c] = "returned") =>
          /\ \A c, d \in Callers : ret[c] = ret[d]
          /\ Cardinality(Launched) = 1
    /\ (\A c \in Callers : Finished(c, "acquire")
          /\ \A d \in Callers : ~Tried(d, "context:fail") /\ ~Tried(d, "page:fail")) =>
          \A e \in Alive : currentSession # NoSession /\ currentSession.browser = e

----------------------------------------------------------------------------
(* The page the console monitor observed.                                  *)

\* One run of the console monitor, with or without --url and
\* --no-navigation true, on a page that logs to the console.
NextNavigation ==
    \/ \E a \in NavigationArgs("console") :
          /\ inv = 0 /\ ~a.types /\ a.close = "absent"
          /\ Spawn("console", a)
    \/ CommonSteps
    \/ WaitDone
    \/ \E t \in ConsoleTypes : ConsoleEvent(t)

SpecNavigation == Init /\ [][NextNavigation]_vars

\* C35: when the console monitor reports success, the page it observed was
\* navigated during this invocation or belonged to a connected session that
\* existed when the invocation began; never a page created by this
\* invocation and not navigated.
C35_ObservedPageWasNavigated ==
    (cmd = "console" /\ stdout # <<>>) =>
        \/ page.loaded
        \/ \A i \in 1..Len(issued) : issued[i] # session

----------------------------------------------------------------------------
(* The selectors of one snapshot.                                          *)

\* C37: within one snapshot, two distinct elements have distinct selectors.
C37_SelectorsAreDistinct ==
    \A j \in 1..Len(snapshots) :
        \A i, k \in 1..Len(snapshots[j]) :
            i # k => snapshots[j][i].selector # snapshots[j][k].selector

----------------------------------------------------------------------------
(* Termination of an invocation.                                           *)

\* The clock of a run that is to end: it stops early enough before the wait
\* for a window that has begun to run out below MaxNow.
TickWithin ==
    /\ cmdpc = "wait" \/ now + 1 + args.duration <= MaxNow
    /\ Tick

\* One run of any script that closes its session and prints its result,
\* the monitors with a window of any duration, on a page that logs and sends
\* XHRs that fail or stay unanswered, while the clock runs.
NextLive ==
    \/ \E c \in Commands :
          \E a \in (IF c \in Monitors THEN WindowArgs(c) ELSE ArgsOf(c)) :
              /\ inv = 0 /\ ~a.types /\ a.close = "absent" /\ ~a.output
              /\ Spawn(c, a)
    \/ ScriptSteps
    \/ \E t \in ConsoleTypes : ConsoleEvent(t)
    \/ \E r \in Requests : RequestEvent(r, "xhr")
    \/ \E r \in Requests : RequestFailedEvent(r)
    \/ TickWithin

\* An await of the script, or of the registry call it is suspended in,
\* settles: a step of the program, not one of the page or of the engine.
Settle == ScriptSteps /\ (cmdpc' # cmdpc \/ pc' # pc)

\* Every await of the script settles (each engine call returns or times
\* out) and the timer of the wait runs; the page owes no event.
SpecLive ==
    /\ Init
    /\ [][NextLive]_vars
    /\ WF_vars(Settle)
    /\ WF_vars(TickWithin)

\* C38: every invocation ends, with status 0 or with status 1 and with that
\* one status for good; a monitor leaves its wait once the duration has
\* elapsed, whatever events arrived and whatever requests are unanswered.
C38_EveryInvocationTerminates ==
    /\ Running ~> (cmdpc = "exited" /\ exitCode \in {0, 1})
    /\ (cmdpc = "wait") ~> (cmdpc # "wait")
    /\ [][cmdpc = "exited" => (cmdpc' = "exited" /\ exitCode' = exitCode)]_vars

\* A monitor that has printed its result while a request it recorded the
\* start of is unanswered and events arrived during the wait.
C38_Witness ==
    /\ cmd = "network"
    /\ cmdpc = "exited"
    /\ exitCode = 0
    /\ args.duration = 1
    /\ window.waitFrom < window.expiredAt
    /\ \E r \in Requests : net[r].state = "sent"
====
